---- MODULE Spec2Model ----
(***************************************************************************)
(* Model of sportfun/gakisitor: the event bus (src/event/bus.go), the      *)
(* kernel lifecycle (src/kernel/core.go) and notification routing          *)
(* (src/services/network/notification.go).                                 *)
(***************************************************************************)
EXTENDS Integers, Sequences, FiniteSets, TLC

\* ------------------------------------------------------------------ bounds
MaxWorkers == 2        \* worker goroutines ever spawned by Subscribe
MaxAttempts == 2       \* delivery-attempt goroutines ever spawned by Publish
MaxLiveWorkers == 2    \* the same, in the specifications that run the goroutines
MaxLiveAttempts == 2
MaxServices == 3       \* services handed to Configure
MaxQueue == 1          \* notifications left in the queue between kernel calls
MaxTasks == 3          \* bus calls made by concurrent tasks

\* --------------------------------------------------------------- constants
publishTimeout == 25   \* bus.go:32, milliseconds
replyTimeout == 25     \* bus.go:33, milliseconds

Nil == "nil"
ErrPublishTimeout == "publish timeout"
ErrChannelNotFound == "channel not found"
ErrChannelClosed == "channel currently closed"
ErrChannelSubscriberNotFound == "channel subscriber not found"
ErrChannelSubscriberAlreadyExists == "channel subscriber already exists"

\* Channel names and consumer functions (by runtime function name) the bus
\* operations are called with.
BusChannels == {"Data", "Error"}
Consumers == {"main.onData", "main.onError"}

VARIABLES
    subscribers,   \* Bus.subscribers: channel -> list of subscriber{id, ch, cancel}
    ids,           \* Bus.ids: set of registration ids
    workers,       \* the worker goroutine of every Subscribe call, with its ch and ctx
    attempts,      \* the delivery goroutine and Event of every Publish iteration
    calls,         \* handler.consume invocations made by the last Publish
    registered,    \* (channel, consumer) pairs subscribed and not since unsubscribed
    last,          \* the last bus call: operation, arguments, return value
    services,      \* Core.services
    kstate,        \* Core.state
    internal,      \* Core.internal
    queue,         \* Core.notifications: the queued notifications, oldest first
    klast,         \* the last kernel call: operation, return value, what it did
    lock,          \* Bus.sync: 0 when free, else the task holding it
    tasks,         \* the bus calls made by concurrent tasks, each with its position
    fatal          \* the runtime stopped the program (concurrent map read and write)

kvars == <<services, kstate, internal, queue, klast>>
cvars == <<lock, tasks, fatal>>
vars == <<subscribers, ids, workers, attempts, calls, registered, last,
          services, kstate, internal, queue, klast, lock, tasks, fatal>>

\* ------------------------------------------------------------- event bus

\* id := fmt.Sprintf("%s:%s", channel, runtime.FuncForPC(...).Name())
fmtId_noChannel(channel, handler) == ":" \o handler
fmtId(channel, handler) == channel \o ":" \o handler

\* bus.subscribers[channel] of a missing key is the nil slice
subsOf(channel) ==
    IF channel \in DOMAIN subscribers THEN subscribers[channel] ELSE <<>>

mapSet(m, k, v) == [x \in DOMAIN m \cup {k} |-> IF x = k THEN v ELSE m[x]]
mapDelete(m, k) == [x \in DOMAIN m \ {k} |-> m[x]]

\* Number of pairs registered on a channel.
RegCount(channel) == Cardinality({p \in registered : p[1] = channel})

\* The Event and goroutine created by one iteration of Publish's loop.
NewAttempt(sub, hasHandler) ==
    [w |-> sub.w, handed |-> FALSE, timedOut |-> FALSE, errWritten |-> FALSE,
     replied |-> FALSE, hasHandler |-> hasHandler]

\* handler.consume(event.reply, event.error, nil, replyTimeout) for event e
ConsumeCall(e) == [reply |-> e, error |-> e, err |-> Nil, timeout |-> replyTimeout]
\* handler.consume(nil, nil, ErrChannelNotFound, 0)
NotFoundCall == [reply |-> 0, error |-> 0, err |-> ErrChannelNotFound, timeout |-> 0]

\* The attempts started by Publish's loop over bus.subscribers[channel].
PublishAttempts(channel, hasHandler) ==
    [k \in 1..Len(subsOf(channel)) |-> NewAttempt(subsOf(channel)[k], hasHandler)]

\* The handler.consume invocations of one Publish, in order.
PublishCalls(channel, hasHandler) ==
    IF ~hasHandler THEN <<>>
    ELSE IF channel \notin DOMAIN subscribers THEN <<NotFoundCall>>
    ELSE [k \in 1..Len(subscribers[channel]) |-> ConsumeCall(Len(attempts) + k)]

Publish(channel, hasHandler) ==
    /\ Len(attempts) + Len(subsOf(channel)) <= MaxAttempts
    /\ attempts' = attempts \o PublishAttempts(channel, hasHandler)
    /\ UNCHANGED <<subscribers, ids, workers>>
    /\ UNCHANGED <<kvars, cvars>>

\* The goroutine started by Subscribe, with its channel ch and context ctx.
NewWorker(channel, handler) ==
    [channel |-> channel, handler |-> handler, cancelled |-> FALSE,
     done |-> FALSE, closed |-> 0]

SubscribeRet(channel, handler) ==
    IF fmtId(channel, handler) \in ids THEN ErrChannelSubscriberAlreadyExists ELSE Nil

Subscribe(channel, handler) ==
    LET id == fmtId(channel, handler)
        w == Len(workers) + 1
    IN  /\ Len(workers) < MaxWorkers
        /\ workers' = Append(workers, NewWorker(channel, handler))
        /\ IF SubscribeRet(channel, handler) # Nil
             THEN UNCHANGED <<subscribers, ids>>
             ELSE /\ subscribers' = mapSet(subscribers, channel,
                                           Append(subsOf(channel), [id |-> id, w |-> w]))
                  /\ ids' = ids \cup {id}
        /\ UNCHANGED <<attempts, kvars, cvars>>

\* The index of the first subscriber with this id, 0 when there is none
\* (for i, sbcr := range sub { if sbcr.id == id ...).
FindSub(sub, id) ==
    IF \E i \in 1..Len(sub) : sub[i].id = id
      THEN CHOOSE i \in 1..Len(sub) :
               /\ sub[i].id = id
               /\ \A j \in 1..(i - 1) : sub[j].id # id
      ELSE 0

\* What the slice stored in the map reads after sub = append(sub[:i], sub[i+1:]...):
\* the elements after i are moved down in the shared backing array, the
\* stored slice header keeps its length.
ShiftedArray(sub, i) ==
    [k \in 1..Len(sub) |->
        IF k < i THEN sub[k] ELSE IF k < Len(sub) THEN sub[k + 1] ELSE sub[k]]

UnsubscribeRet(channel, handler) ==
    IF channel \notin DOMAIN subscribers THEN ErrChannelNotFound
    ELSE IF FindSub(subscribers[channel], fmtId(channel, handler)) = 0
           THEN ErrChannelSubscriberNotFound
           ELSE Nil

Unsubscribe(channel, handler) ==
    LET id == fmtId(channel, handler)
        sub == subsOf(channel)
        i == FindSub(sub, id)
    IN  /\ IF UnsubscribeRet(channel, handler) # Nil
             THEN UNCHANGED <<subscribers, ids, workers>>
             ELSE /\ workers' = [workers EXCEPT ![sub[i].w].cancelled = TRUE]
                  /\ ids' = ids \ {id}
                  /\ subscribers' =
                        IF Len(sub) - 1 = 0
                          THEN mapDelete(subscribers, channel)
                          ELSE mapSet(subscribers, channel, ShiftedArray(sub, i))
        /\ UNCHANGED <<attempts, kvars, cvars>>

\* ---- the three operations as calls: what the caller passes, gets back and
\* ---- sees (the record of the call, the handler invocations, the pairs the
\* ---- caller has subscribed and not since unsubscribed)

PublishCall(channel, hasHandler) ==
    /\ Publish(channel, hasHandler)
    /\ calls' = PublishCalls(channel, hasHandler)
    /\ last' = [op |-> "Publish", channel |-> channel, handler |-> Nil,
                hasHandler |-> hasHandler, ret |-> Nil,
                wasRegistered |-> FALSE, regCount |-> RegCount(channel),
                newAttempts |-> Len(attempts') - Len(attempts),
                tablesChanged |-> (subscribers' # subscribers \/ ids' # ids)]
    /\ UNCHANGED registered

SubscribeCall(channel, handler) ==
    /\ Subscribe(channel, handler)
    /\ registered' = IF SubscribeRet(channel, handler) = Nil
                       THEN registered \cup {<<channel, handler>>}
                       ELSE registered
    /\ last' = [op |-> "Subscribe", channel |-> channel, handler |-> handler,
                hasHandler |-> TRUE, ret |-> SubscribeRet(channel, handler),
                wasRegistered |-> (<<channel, handler>> \in registered),
                regCount |-> RegCount(channel),
                newAttempts |-> Len(attempts') - Len(attempts),
                tablesChanged |-> (subscribers' # subscribers \/ ids' # ids)]
    /\ UNCHANGED calls

UnsubscribeCall(channel, handler) ==
    /\ Unsubscribe(channel, handler)
    /\ registered' = IF UnsubscribeRet(channel, handler) = Nil
                       THEN registered \ {<<channel, handler>>}
                       ELSE registered
    /\ last' = [op |-> "Unsubscribe", channel |-> channel, handler |-> handler,
                hasHandler |-> TRUE, ret |-> UnsubscribeRet(channel, handler),
                wasRegistered |-> (<<channel, handler>> \in registered),
                regCount |-> RegCount(channel),
                newAttempts |-> Len(attempts') - Len(attempts),
                tablesChanged |-> (subscribers' # subscribers \/ ids' # ids)]
    /\ UNCHANGED calls

\* The select of a delivery goroutine is still waiting on both cases.
SelectPending_timerOnly(a) == ~attempts[a].timedOut
SelectPending(a) == ~attempts[a].handed /\ ~attempts[a].timedOut

\* The select of a worker goroutine is still being executed.
WorkerRunning(w) == ~workers[w].done

\* case ch <- e (delivery goroutine) together with case event, o := <-channel
\* (worker goroutine), followed by handler(event, nil).
WorkerReceive(w, a) ==
    /\ w \in 1..Len(workers) /\ a \in 1..Len(attempts)
    /\ WorkerRunning(w)
    /\ attempts[a].w = w
    /\ SelectPending(a)
    /\ attempts' = [attempts EXCEPT ![a].handed = TRUE]
    /\ UNCHANGED <<subscribers, ids, workers, calls, registered, last, kvars, cvars>>

\* case <-ctx.Done(): return, running the deferred handler(nil, ErrChannelClosed).
WorkerCancel_noDefer(w) ==
    /\ w \in 1..Len(workers)
    /\ WorkerRunning(w)
    /\ workers[w].cancelled
    /\ workers' = [workers EXCEPT ![w].done = TRUE]
    /\ UNCHANGED <<subscribers, ids, attempts, calls, registered, last, kvars, cvars>>
WorkerCancel(w) ==
    /\ w \in 1..Len(workers)
    /\ WorkerRunning(w)
    /\ workers[w].cancelled
    /\ workers' = [workers EXCEPT ![w].done = TRUE, ![w].closed = @ + 1]
    /\ UNCHANGED <<subscribers, ids, attempts, calls, registered, last, kvars, cvars>>

\* case <-time.After(replyTimeout): the goroutine now blocks in
\* event.error <- ErrPublishTimeout.
AttemptTimeout(a) ==
    /\ a \in 1..Len(attempts)
    /\ SelectPending(a)
    /\ attempts' = [attempts EXCEPT ![a].timedOut = TRUE]
    /\ UNCHANGED <<subscribers, ids, workers, calls, registered, last, kvars, cvars>>

\* event.error <- ErrPublishTimeout completes when the publisher's handler,
\* the only holder of the error conduit, receives from it.
AttemptErrorRead(a) ==
    /\ a \in 1..Len(attempts)
    /\ attempts[a].timedOut /\ ~attempts[a].errWritten
    /\ attempts[a].hasHandler
    /\ attempts' = [attempts EXCEPT ![a].errWritten = TRUE]
    /\ UNCHANGED <<subscribers, ids, workers, calls, registered, last, kvars, cvars>>

\* The consumer answers on event.Reply(); it holds the Event only after the
\* hand-off, and the send completes when the publisher's handler receives.
ConsumerReply(a) ==
    /\ a \in 1..Len(attempts)
    /\ attempts[a].handed /\ ~attempts[a].replied
    /\ attempts[a].hasHandler
    /\ attempts' = [attempts EXCEPT ![a].replied = TRUE]
    /\ UNCHANGED <<subscribers, ids, workers, calls, registered, last, kvars, cvars>>

\* ------------------------------------------------------ kernel lifecycle

\* constant.States
StateStarted == 1
StateIdle == 2
StateWorking == 4
StateStopped == 8
StatePanic == 16
StateZero == 0     \* the zero value of Core.state before any call

\* constant.EntityNames: the kernel, the generic module, and another entity
EntityCore == "core"
EntityModule == "module"
EntityOther == "network"

\* constant.Channels.*.String()
ChannelCommand == "Command"
ChannelData == "Data"
ChannelError == "Error"
RouteChannels == {ChannelCommand, ChannelData, ChannelError}

ErrNotLoaded == "properties not loaded"
ErrFailedToEmit == "failed to emit message"
UnhandledNotificationOrigin == "unhandled notification origin (%s)"
UnknownContentType == "unknown content type"

\* The dynamic types a notification's content can have.
ContentTypes == {"CommandObject", "DataObject", "ErrorObject", "string"}

NoNotif == [to |-> Nil, from |-> Nil, content |-> Nil]
Notif(to, from, content) == [to |-> to, from |-> from, content |-> content]

\* The error a service's hook returns when it fails.
HookErr(hook, i) == hook \o " failed in service " \o ToString(i)

\* What a kernel call did, in order: hooks called, notifications the hooks
\* queued, notifications routed, publications, warnings.
HookEv(hook, i, err) == [ev |-> hook, svc |-> i, ch |-> Nil, n |-> NoNotif, err |-> err]
RouteEv(n, err) == [ev |-> "Route", svc |-> 0, ch |-> Nil, n |-> n, err |-> err]
PublishEv(ch, n) == [ev |-> "Publish", svc |-> 0, ch |-> ch, n |-> n, err |-> Nil]
QueueEv(i, n) == [ev |-> "Queue", svc |-> i, ch |-> Nil, n |-> n, err |-> Nil]
WarnEv(msg, n) == [ev |-> "Warn", svc |-> 0, ch |-> msg, n |-> n, err |-> Nil]

\* core.checkIf(s, err, predicate): TRUE when the hook succeeded; a failure is
\* recorded in core.internal.
checkIf(err) == err = Nil
checkIfInternal(old, err) == IF err = Nil THEN old ELSE err

\* NotificationQueue.Notifications(dest): the queued notifications addressed
\* to dest, in order, which are removed from the queue.
Notifications(q, dest) == SelectSeq(q, LAMBDA n : n.to = dest)
Remaining(q, dest) == SelectSeq(q, LAMBDA n : n.to # dest)

\* service.emit(channel, o): publishes on the bus with a handler and reports
\* whether the handler was not told ErrChannelNotFound.
emit(channel) == channel \in DOMAIN subscribers

\* The channel of defaultNotificationHandler's type switch, Nil for default.
ChannelOf(content) ==
    CASE content = "CommandObject" -> ChannelCommand
      [] content = "DataObject" -> ChannelData
      [] content = "ErrorObject" -> ChannelError
      [] OTHER -> Nil

\* defaultNotificationHandler(service, n) applied to st = [attempts, trace]:
\* its publication or warning, and its return value.
defaultNotificationHandler(n, st) ==
    LET ch == ChannelOf(n.content)
    IN  IF ch = Nil
          THEN [st EXCEPT !.trace = st.trace \o
                   <<WarnEv(UnknownContentType, n), RouteEv(n, Nil)>>]
          ELSE [st EXCEPT
                   !.attempts = st.attempts \o PublishAttempts(ch, TRUE),
                   !.trace = st.trace \o
                      <<PublishEv(ch, n),
                        RouteEv(n, IF emit(ch) THEN Nil ELSE ErrFailedToEmit)>>]

\* handle(n): notifications from the module entity or the core are routed by
\* content type, the others are logged.
handle_anyOrigin(n, st) == defaultNotificationHandler(n, st)
handle(n, st) ==
    IF n.from \in {EntityModule, EntityCore}
      THEN defaultNotificationHandler(n, st)
      ELSE [st EXCEPT !.trace = st.trace \o
               <<WarnEv(UnhandledNotificationOrigin, n), RouteEv(n, Nil)>>]

\* for _, n := range core.notifications.Notifications(Core) { core.handle(n) }:
\* the value handle returns is not used.
handleAll_firstOnly(ns, st) ==
    IF ns = <<>> THEN st ELSE handle(Head(ns), st)
RECURSIVE handleAll(_, _)
handleAll(ns, st) ==
    IF ns = <<>> THEN st ELSE handleAll(Tail(ns), handle(Head(ns), st))

\* Run, a Process hook failed: return core.internal.
RunAbort_returnsNil(st, err) ==
    [st EXCEPT !.internal = checkIfInternal(st.internal, err), !.ret = Nil]
RunAbort_backToIdle(st, err) ==
    [st EXCEPT !.internal = checkIfInternal(st.internal, err),
               !.ret = checkIfInternal(st.internal, err),
               !.state = StateIdle]
RunAbort(st, err) ==
    [st EXCEPT !.internal = checkIfInternal(st.internal, err),
               !.ret = checkIfInternal(st.internal, err)]

\* Run's loop from service i on; outs[i] is what service i's Process does:
\* whether it succeeds and the notifications it queues.
RECURSIVE RunFrom(_, _, _)
RunFrom(i, st, outs) ==
    IF i > Len(services)
      THEN [st EXCEPT !.state = StateIdle, !.ret = Nil]
      ELSE LET err == IF outs[i].ok THEN Nil ELSE HookErr("Process", i)
               q1 == st.queue \o outs[i].enq
               s1 == [st EXCEPT !.queue = q1,
                                !.trace = Append(st.trace, HookEv("Process", i, err))
                                    \o [k \in 1..Len(outs[i].enq) |->
                                           QueueEv(i, outs[i].enq[k])]]
           IN  IF ~checkIf(err)
                 THEN RunAbort(s1, err)
                 ELSE RunFrom(i + 1,
                              handleAll(Notifications(q1, EntityCore),
                                        [s1 EXCEPT !.queue = Remaining(q1, EntityCore)]),
                              outs)

\* The notifications a service may address to the kernel, and one addressed
\* to another entity.
CoreNotifs ==
    {Notif(EntityCore, f, c) : f \in {EntityModule, EntityCore, EntityOther},
                               c \in ContentTypes}
OtherNotif == Notif(EntityOther, EntityCore, "CommandObject")

\* What services queue between two kernel calls.
QueuedNotifs == {Notif(EntityCore, EntityModule, "DataObject"), OtherNotif}

\* What a Process hook may queue: nothing or one notification.
ProcessQueues == {<<>>} \cup {<<n>> : n \in CoreNotifs \cup {OtherNotif}}
FailingQueues == {<<>>} \cup {<<n>> : n \in QueuedNotifs}
ProcessOutcomes == [ok : BOOLEAN, enq : ProcessQueues]

\* Hook results of n services in which service k is the only one to fail
\* (none fails when k = 0): the hooks of the services after a failing one are
\* not reached by Configure and Run.
FailsAt(n, k) == [i \in 1..n |-> i # k]
OneFails(n) == {FailsAt(n, k) : k \in 0..n}

\* Start and Configure hook results of n services with at most one failing hook.
HookFails(n) ==
    {<<startOk, FailsAt(n, 0)>> : startOk \in OneFails(n)}
      \cup {<<FailsAt(n, 0), confOk>> : confOk \in OneFails(n)}

\* Process hooks of n services among which service f fails (none when f = 0)
\* and at most one service, reached by Run, queues a notification; a failing
\* hook queues nothing or one of QueuedNotifs.
ProcessRunsFailing(n, f) ==
    UNION {{[i \in 1..n |-> [ok |-> i # f, enq |-> IF i = k THEN q ELSE <<>>]] :
               q \in IF k = f THEN FailingQueues ELSE ProcessQueues \ {<<>>}} :
             k \in 1..(IF f = 0 THEN n ELSE f)}
      \cup {[i \in 1..n |-> [ok |-> i # f, enq |-> <<>>]]}
ProcessRuns(n) == UNION {ProcessRunsFailing(n, f) : f \in 0..n}

Run(outs) ==
    LET r == RunFrom(1, [queue |-> queue, attempts |-> attempts, trace |-> <<>>,
                         internal |-> internal, state |-> StateWorking, ret |-> Nil],
                     outs)
    IN  /\ Len(r.attempts) <= MaxAttempts
        /\ Len(r.queue) <= MaxQueue
        /\ attempts' = r.attempts
        /\ queue' = r.queue
        /\ internal' = r.internal
        /\ kstate' = r.state
        /\ klast' = [op |-> "Run", ret |-> r.ret, trace |-> r.trace]
        /\ UNCHANGED <<services, subscribers, ids, workers, calls, registered,
                       last, cvars>>

\* Stop's loop from service i on; oks[i] tells whether service i's Stop succeeds.
RECURSIVE StopFrom(_, _, _)
StopFrom(i, st, oks) ==
    IF i > Len(services)
      THEN [st EXCEPT !.state = StateStopped, !.ret = Nil]
      ELSE LET err == IF oks[i] THEN Nil ELSE HookErr("Stop", i)
               s1 == [st EXCEPT !.internal = checkIfInternal(st.internal, err),
                                !.trace = Append(st.trace, HookEv("Stop", i, err))]
           IN  IF checkIf(err)
                 THEN [s1 EXCEPT !.ret = s1.internal]
                 ELSE StopFrom(i + 1, s1, oks)

Stop(oks) ==
    LET r == StopFrom(1, [trace |-> <<>>, internal |-> internal,
                          state |-> kstate, ret |-> Nil], oks)
    IN  /\ internal' = r.internal
        /\ kstate' = r.state
        /\ klast' = [op |-> "Stop", ret |-> r.ret, trace |-> r.trace]
        /\ UNCHANGED <<services, queue, subscribers, ids, workers, attempts,
                       calls, registered, last, cvars>>

\* Configure's loop from service i on, over the n services it was given.
RECURSIVE ConfigureFrom_startOnly(_, _, _, _, _)
ConfigureFrom_startOnly(i, n, st, startOk, confOk) ==
    IF i > n
      THEN [st EXCEPT !.state = StateIdle, !.ret = Nil]
      ELSE LET e1 == IF startOk[i] THEN Nil ELSE HookErr("Start", i)
               s1 == [st EXCEPT !.internal = checkIfInternal(st.internal, e1),
                                !.trace = Append(st.trace, HookEv("Start", i, e1))]
               e2 == IF confOk[i] THEN Nil ELSE HookErr("Configure", i)
               s2 == [s1 EXCEPT !.internal = checkIfInternal(s1.internal, e2),
                                !.trace = Append(s1.trace, HookEv("Configure", i, e2))]
           IN  IF ~checkIf(e1) THEN [s1 EXCEPT !.ret = s1.internal]
               ELSE ConfigureFrom_startOnly(i + 1, n, s2, startOk, confOk)
RECURSIVE ConfigureFrom(_, _, _, _, _)
ConfigureFrom(i, n, st, startOk, confOk) ==
    IF i > n
      THEN [st EXCEPT !.state = StateIdle, !.ret = Nil]
      ELSE LET e1 == IF startOk[i] THEN Nil ELSE HookErr("Start", i)
               s1 == [st EXCEPT !.internal = checkIfInternal(st.internal, e1),
                                !.trace = Append(st.trace, HookEv("Start", i, e1))]
               e2 == IF confOk[i] THEN Nil ELSE HookErr("Configure", i)
               s2 == [s1 EXCEPT !.internal = checkIfInternal(s1.internal, e2),
                                !.trace = Append(s1.trace, HookEv("Configure", i, e2))]
           IN  IF ~checkIf(e1) THEN [s1 EXCEPT !.ret = s1.internal]
               ELSE IF ~checkIf(e2) THEN [s2 EXCEPT !.ret = s2.internal]
               ELSE ConfigureFrom(i + 1, n, s2, startOk, confOk)

Configure_storesBeforeCheck(n, loaded, startOk, confOk) ==
    IF ~loaded
      THEN /\ services' = [i \in 1..n |-> i]
           /\ queue' = <<>>
           /\ klast' = [op |-> "Configure", ret |-> ErrNotLoaded, trace |-> <<>>]
           /\ UNCHANGED <<kstate, internal, subscribers, ids,
                          workers, attempts, calls, registered, last, cvars>>
      ELSE LET r == ConfigureFrom(1, n, [trace |-> <<>>, internal |-> Nil,
                                         state |-> kstate, ret |-> Nil],
                                  startOk, confOk)
           IN  /\ services' = [i \in 1..n |-> i]
               /\ queue' = <<>>
               /\ internal' = r.internal
               /\ kstate' = r.state
               /\ klast' = [op |-> "Configure", ret |-> r.ret, trace |-> r.trace]
               /\ UNCHANGED <<subscribers, ids, workers, attempts, calls,
                              registered, last, cvars>>
Configure(n, loaded, startOk, confOk) ==
    IF ~loaded
      THEN /\ klast' = [op |-> "Configure", ret |-> ErrNotLoaded, trace |-> <<>>]
           /\ UNCHANGED <<services, kstate, internal, queue, subscribers, ids,
                          workers, attempts, calls, registered, last, cvars>>
      ELSE LET r == ConfigureFrom(1, n, [trace |-> <<>>, internal |-> Nil,
                                         state |-> kstate, ret |-> Nil],
                                  startOk, confOk)
           IN  /\ services' = [i \in 1..n |-> i]
               /\ queue' = <<>>
               /\ internal' = r.internal
               /\ kstate' = r.state
               /\ klast' = [op |-> "Configure", ret |-> r.ret, trace |-> r.trace]
               /\ UNCHANGED <<subscribers, ids, workers, attempts, calls,
                              registered, last, cvars>>

\* A service that was given the queue by Start queues a notification.
Enqueue(n) ==
    /\ services # <<>>
    /\ Len(queue) < MaxQueue
    /\ queue' = Append(queue, n)
    /\ UNCHANGED <<services, kstate, internal, klast, subscribers, ids, workers,
                   attempts, calls, registered, last, cvars>>

\* The caller is done with what the last kernel call returned.
Forget ==
    /\ klast.op # "none"
    /\ klast' = [op |-> "none", ret |-> Nil, trace |-> <<>>]
    /\ UNCHANGED <<services, kstate, internal, queue, subscribers, ids, workers,
                   attempts, calls, registered, last, cvars>>

NoKernelCall == [op |-> "none", ret |-> Nil, trace |-> <<>>]

NoCall ==
    [op |-> "none", channel |-> Nil, handler |-> Nil, hasHandler |-> FALSE,
     ret |-> Nil, wasRegistered |-> FALSE, regCount |-> 0, newAttempts |-> 0,
     tablesChanged |-> FALSE]

\* &Bus{subscribers: map, ids: map}: both tables empty.
Init ==
    /\ subscribers = [c \in {} |-> <<>>]
    /\ ids = {}
    /\ workers = <<>>
    /\ attempts = <<>>
    /\ calls = <<>>
    /\ registered = {}
    /\ last = NoCall
    /\ services = <<>>
    /\ kstate = StateZero
    /\ internal = Nil
    /\ queue = <<>>
    /\ klast = NoKernelCall
    /\ lock = 0
    /\ tasks = <<>>
    /\ fatal = FALSE

\* The bus driven through its three operations; no goroutine is scheduled.
Next ==
    \/ \E c \in BusChannels, h \in BOOLEAN : PublishCall(c, h)
    \/ \E c \in BusChannels, f \in Consumers : SubscribeCall(c, f)
    \/ \E c \in BusChannels, f \in Consumers : UnsubscribeCall(c, f)

Spec == Init /\ [][Next]_vars

\* One channel of the bus with the worker and delivery goroutines running.
LiveChannel == "Data"

\* The bus operations called on the live channel.
LiveCalls(consumers) ==
    \/ \E h \in BOOLEAN :
          /\ Len(attempts) + Len(subsOf(LiveChannel)) <= MaxLiveAttempts
          /\ Publish(LiveChannel, h)
          /\ UNCHANGED <<calls, registered, last>>
    \/ \E f \in consumers :
          /\ Len(workers) < MaxLiveWorkers
          /\ Subscribe(LiveChannel, f)
          /\ UNCHANGED <<calls, registered, last>>
    \/ \E f \in consumers :
          /\ Unsubscribe(LiveChannel, f)
          /\ UNCHANGED <<calls, registered, last>>

\* The steps of the worker and delivery goroutines and of their peers.
Goroutines ==
    \/ \E w \in 1..MaxLiveWorkers, a \in 1..MaxLiveAttempts : WorkerReceive(w, a)
    \/ \E w \in 1..MaxLiveWorkers : WorkerCancel(w)
    \/ \E a \in 1..MaxLiveAttempts : AttemptTimeout(a)
    \/ \E a \in 1..MaxLiveAttempts : AttemptErrorRead(a)
    \/ \E a \in 1..MaxLiveAttempts : ConsumerReply(a)

NextLive == LiveCalls(Consumers) \/ Goroutines

SpecLive == Init /\ [][NextLive]_vars

\* The same with one consumer function, for the properties of progress.
LiveConsumers == {"main.onData"}

NextLiveOne == LiveCalls(LiveConsumers) \/ Goroutines

\* The Go scheduler runs every runnable goroutine and every timer fires.
SpecLiveFair ==
    /\ Init /\ [][NextLiveOne]_vars
    /\ \A w \in 1..MaxLiveWorkers : WF_vars(WorkerCancel(w))
    /\ \A a \in 1..MaxLiveAttempts : WF_vars(AttemptTimeout(a))

\* The kernel driven through Configure, Run and Stop, with services queueing
\* notifications and a consumer subscribing to the "Data" channel.
KernelConsumer == "main.onData"

\* The caller is between two kernel calls.
Returned == klast.op = "none"

NextKernel ==
    \/ Returned /\ \E n \in 0..MaxServices :
          Configure(n, TRUE, FailsAt(n, 0), FailsAt(n, 0))
    \/ Returned /\ \E n \in 1..MaxServices :
          \E hooks \in HookFails(n) \ {<<FailsAt(n, 0), FailsAt(n, 0)>>} :
             Configure(n, TRUE, hooks[1], hooks[2])
    \/ Returned /\ \E n \in 0..MaxServices :
          Configure(n, FALSE, FailsAt(n, 0), FailsAt(n, 0))
    \/ Returned /\ \E outs \in ProcessRuns(Len(services)) : Run(outs)
    \/ Returned /\ \E oks \in [1..Len(services) -> BOOLEAN] : Stop(oks)
    \/ Forget
    \/ Returned /\ \E n \in QueuedNotifs : Enqueue(n)
    \/ /\ Returned
       /\ workers = <<>>
       /\ Subscribe(ChannelData, KernelConsumer)
       /\ UNCHANGED <<calls, registered, last>>

SpecKernel == Init /\ [][NextKernel]_vars

\* ------------------------------------------ the bus called concurrently

\* A call of a bus operation by a task, at the position pc of its code; sub
\* and i are Unsubscribe's local slice and index, w the worker a Subscribe
\* started, invoked the number of handler.consume invocations of a Publish.
NewTask(op, channel, handler, hasHandler, pc, w) ==
    [op |-> op, channel |-> channel, handler |-> handler,
     hasHandler |-> hasHandler, pc |-> pc, sub |-> <<>>, i |-> 0, w |-> w,
     invoked |-> 0, ret |-> Nil]

\* A Subscribe or Unsubscribe call has not returned yet.
WriterInFlight ==
    \E t \in 1..Len(tasks) :
        tasks[t].op \in {"Subscribe", "Unsubscribe"} /\ tasks[t].pc # "done"

\* The positions at which the next statement reads or writes bus.subscribers,
\* a registration list or bus.ids.
TableAccessPcs == {"check", "loop", "store", "read", "scan", "remove"}

\* The task holding the lock is about to write the map bus.subscribers.
MapWritePending ==
    /\ lock # 0
    /\ \/ /\ tasks[lock].pc = "store"
          /\ fmtId(tasks[lock].channel, tasks[lock].handler) \notin ids
       \/ /\ tasks[lock].pc = "remove"
          /\ Len(tasks[lock].sub) - 1 = 0

\* A task calls Publish.
CallPublish(channel, hasHandler) ==
    /\ ~fatal /\ Len(tasks) < MaxTasks
    /\ tasks' = Append(tasks, NewTask("Publish", channel, Nil, hasHandler, "check", 0))
    /\ UNCHANGED <<subscribers, ids, workers, attempts, calls, registered, last,
                   kvars, lock, fatal>>

\* if _, exists := bus.subscribers[channel]; !exists { handler.consume(...); return }
PublishCheck(t) ==
    /\ ~fatal /\ t \in 1..Len(tasks) /\ tasks[t].pc = "check"
    /\ tasks' = IF tasks[t].channel \in DOMAIN subscribers
                  THEN [tasks EXCEPT ![t].pc = "lock"]
                  ELSE [tasks EXCEPT ![t].pc = "done",
                                     ![t].ret = ErrChannelNotFound,
                                     ![t].invoked = IF tasks[t].hasHandler THEN 1 ELSE 0]
    /\ UNCHANGED <<subscribers, ids, workers, attempts, calls, registered, last,
                   kvars, lock, fatal>>

\* The same read made while another task writes the map: the runtime may stop
\* the program (fatal error: concurrent map read and map write).
PublishCheckRace(t) ==
    /\ ~fatal /\ t \in 1..Len(tasks) /\ tasks[t].pc = "check"
    /\ MapWritePending
    /\ fatal' = TRUE
    /\ UNCHANGED <<subscribers, ids, workers, attempts, calls, registered, last,
                   kvars, lock, tasks>>

\* bus.sync.Lock()
Acquire(t) ==
    /\ ~fatal /\ t \in 1..Len(tasks) /\ tasks[t].pc = "lock"
    /\ lock = 0
    /\ lock' = t
    /\ tasks' = [tasks EXCEPT ![t].pc =
                    CASE tasks[t].op = "Publish" -> "loop"
                      [] tasks[t].op = "Subscribe" -> "store"
                      [] tasks[t].op = "Unsubscribe" -> "remove"]
    /\ UNCHANGED <<subscribers, ids, workers, attempts, calls, registered, last,
                   kvars, fatal>>

\* Publish's loop over bus.subscribers[channel], then the deferred Unlock.
PublishLoop(t) ==
    /\ ~fatal /\ t \in 1..Len(tasks) /\ tasks[t].pc = "loop" /\ lock = t
    /\ Len(attempts) + Len(subsOf(tasks[t].channel)) <= MaxAttempts
    /\ attempts' = attempts \o PublishAttempts(tasks[t].channel, tasks[t].hasHandler)
    /\ tasks' = [tasks EXCEPT ![t].pc = "done",
                              ![t].invoked = IF tasks[t].hasHandler
                                               THEN Len(subsOf(tasks[t].channel))
                                               ELSE 0]
    /\ lock' = 0
    /\ UNCHANGED <<subscribers, ids, workers, calls, registered, last, kvars, fatal>>

\* A task calls Subscribe: the channel ch, the context and the worker
\* goroutine are created before the lock is taken.
CallSubscribe(channel, handler) ==
    /\ ~fatal /\ Len(tasks) < MaxTasks
    /\ ~WriterInFlight
    /\ Len(workers) < MaxWorkers
    /\ workers' = Append(workers, NewWorker(channel, handler))
    /\ tasks' = Append(tasks, NewTask("Subscribe", channel, handler, TRUE, "lock",
                                      Len(workers) + 1))
    /\ UNCHANGED <<subscribers, ids, attempts, calls, registered, last, kvars,
                   lock, fatal>>

\* Subscribe under the lock: the duplicate check, the append and the id.
SubscribeStore(t) ==
    LET channel == tasks[t].channel
        id == fmtId(channel, tasks[t].handler)
    IN  /\ ~fatal /\ t \in 1..Len(tasks) /\ tasks[t].pc = "store" /\ lock = t
        /\ IF id \in ids
             THEN UNCHANGED <<subscribers, ids>>
             ELSE /\ subscribers' =
                        mapSet(subscribers, channel,
                               Append(subsOf(channel), [id |-> id, w |-> tasks[t].w]))
                  /\ ids' = ids \cup {id}
        /\ tasks' = [tasks EXCEPT ![t].pc = "done",
                                  ![t].ret = SubscribeRet(channel, tasks[t].handler)]
        /\ lock' = 0
        /\ UNCHANGED <<workers, attempts, calls, registered, last, kvars, fatal>>

\* A task calls Unsubscribe.
CallUnsubscribe(channel, handler) ==
    /\ ~fatal /\ Len(tasks) < MaxTasks
    /\ ~WriterInFlight
    /\ tasks' = Append(tasks, NewTask("Unsubscribe", channel, handler, TRUE, "read", 0))
    /\ UNCHANGED <<subscribers, ids, workers, attempts, calls, registered, last,
                   kvars, lock, fatal>>

\* if sub, exists := bus.subscribers[channel]; !exists { return ErrChannelNotFound }
UnsubscribeRead(t) ==
    /\ ~fatal /\ t \in 1..Len(tasks) /\ tasks[t].pc = "read"
    /\ tasks' = IF tasks[t].channel \in DOMAIN subscribers
                  THEN [tasks EXCEPT ![t].pc = "scan",
                                     ![t].sub = subscribers[tasks[t].channel]]
                  ELSE [tasks EXCEPT ![t].pc = "done", ![t].ret = ErrChannelNotFound]
    /\ UNCHANGED <<subscribers, ids, workers, attempts, calls, registered, last,
                   kvars, lock, fatal>>

\* for i, sbcr := range sub { if sbcr.id == id ... } return ErrChannelSubscriberNotFound
UnsubscribeScan(t) ==
    LET i == FindSub(tasks[t].sub, fmtId(tasks[t].channel, tasks[t].handler))
    IN  /\ ~fatal /\ t \in 1..Len(tasks) /\ tasks[t].pc = "scan"
        /\ tasks' = IF i = 0
                      THEN [tasks EXCEPT ![t].pc = "done",
                                         ![t].ret = ErrChannelSubscriberNotFound]
                      ELSE [tasks EXCEPT ![t].pc = "lock", ![t].i = i]
        /\ UNCHANGED <<subscribers, ids, workers, attempts, calls, registered, last,
                       kvars, lock, fatal>>

\* Unsubscribe under the lock: cancel, the shift in the backing array, the
\* deletions, then the deferred Unlock.
UnsubscribeRemove(t) ==
    LET channel == tasks[t].channel
        sub == tasks[t].sub
        i == tasks[t].i
    IN  /\ ~fatal /\ t \in 1..Len(tasks) /\ tasks[t].pc = "remove" /\ lock = t
        /\ workers' = [workers EXCEPT ![sub[i].w].cancelled = TRUE]
        /\ ids' = ids \ {fmtId(channel, tasks[t].handler)}
        /\ subscribers' =
              IF Len(sub) - 1 = 0
                THEN mapDelete(subscribers, channel)
                ELSE mapSet(subscribers, channel, ShiftedArray(sub, i))
        /\ tasks' = [tasks EXCEPT ![t].pc = "done", ![t].ret = Nil]
        /\ lock' = 0
        /\ UNCHANGED <<attempts, calls, registered, last, kvars, fatal>>

\* Tasks calling the bus on one channel. Publish calls overlap with every
\* other call; a Subscribe or Unsubscribe call starts when no other Subscribe
\* or Unsubscribe call is in progress.
NextConc ==
    \/ \E h \in BOOLEAN : CallPublish(LiveChannel, h)
    \/ \E f \in Consumers : CallSubscribe(LiveChannel, f)
    \/ \E f \in Consumers : CallUnsubscribe(LiveChannel, f)
    \/ \E t \in 1..MaxTasks : PublishCheck(t)
    \/ \E t \in 1..MaxTasks : PublishCheckRace(t)
    \/ \E t \in 1..MaxTasks : Acquire(t)
    \/ \E t \in 1..MaxTasks : PublishLoop(t)
    \/ \E t \in 1..MaxTasks : SubscribeStore(t)
    \/ \E t \in 1..MaxTasks : UnsubscribeRead(t)
    \/ \E t \in 1..MaxTasks : UnsubscribeScan(t)
    \/ \E t \in 1..MaxTasks : UnsubscribeRemove(t)

SpecConc == Init /\ [][NextConc]_vars

\* ------------------------------------------------- claims on the event bus

\* The attempt started for the k-th handler invocation of the last Publish
\* targets the queue of a worker running this consumer.
CallReaches(k, consumer) ==
    /\ calls[k].err = Nil
    /\ workers[attempts[calls[k].reply].w].handler = consumer

\* C1: a Publish with a handler on a channel with N >= 1 registered consumers
\* invokes the handler exactly N times, once per registered consumer.
C1_PublishOncePerRegistered ==
    (last.op = "Publish" /\ last.hasHandler /\ last.regCount >= 1) =>
        /\ Len(calls) = last.regCount
        /\ \A p \in registered :
              p[1] = last.channel =>
                 Cardinality({k \in 1..Len(calls) : CallReaches(k, p[2])}) = 1

\* C2: Unsubscribe returns ChannelNotFound when the channel has no
\* registration at all, and ChannelSubscriberNotFound whenever the consumer is
\* not currently registered on a channel that has registrations.
C2_UnsubscribeErrors ==
    last.op = "Unsubscribe" =>
        /\ last.regCount = 0 => last.ret = ErrChannelNotFound
        /\ (last.regCount > 0 /\ ~last.wasRegistered) =>
              last.ret = ErrChannelSubscriberNotFound

\* Some consumer was subscribed to the channel and has been unsubscribed.
HadSubscribers(channel) ==
    \E w \in 1..Len(workers) :
        workers[w].channel = channel /\ workers[w].cancelled

\* C3: once every subscriber a channel has had is unsubscribed, the channel is
\* absent from the bus: a following Publish invokes the handler once with
\* ChannelNotFound and starts no delivery attempt, a following Unsubscribe
\* returns ChannelNotFound.
C3_ChannelAbsentAfterLastUnsubscribe ==
    \A c \in BusChannels :
        (HadSubscribers(c) /\ RegCount(c) = 0) =>
            /\ c \notin DOMAIN subscribers
            /\ (last.op = "Publish" /\ last.channel = c /\ last.hasHandler) =>
                  (calls = <<NotFoundCall>> /\ last.newAttempts = 0)
            /\ (last.op = "Unsubscribe" /\ last.channel = c /\ last.regCount = 0) =>
                  last.ret = ErrChannelNotFound

\* C4: Subscribe returns ChannelSubscriberAlreadyExists exactly when the same
\* (channel, consumer) pair is currently registered, and succeeds otherwise.
C4_SubscribeDuplicate ==
    last.op = "Subscribe" =>
        /\ last.wasRegistered => last.ret = ErrChannelSubscriberAlreadyExists
        /\ ~last.wasRegistered => last.ret = Nil
        /\ <<last.channel, last.handler>> \in registered

\* A consumer subscribed to both channels, the second Subscribe succeeding.
C4_Witness ==
    /\ last.op = "Subscribe" /\ last.ret = Nil
    /\ \E c \in BusChannels :
          c # last.channel /\ <<c, last.handler>> \in registered

\* C5: Publish on a channel with zero registered subscribers invokes the
\* handler exactly once with (nil, nil, ChannelNotFound, 0), creates no Event,
\* starts no delivery attempt and leaves the bus tables unchanged.
C5_PublishNoSubscribers ==
    (last.op = "Publish" /\ last.regCount = 0) =>
        /\ last.hasHandler => calls = <<NotFoundCall>>
        /\ last.newAttempts = 0
        /\ ~last.tablesChanged

C7_CancelledWorkerClosesOnce ==
    /\ [](\A w \in 1..Len(workers) : workers[w].closed <= 1)
    /\ [][\A w \in 1..Len(workers) :
            workers[w].closed = 1 =>
               /\ workers'[w].closed = 1
               /\ \A a \in 1..Len(attempts) :
                     attempts[a].w = w => attempts'[a].handed = attempts[a].handed]_vars
    /\ \A w \in 1..MaxLiveWorkers :
          (w <= Len(workers) /\ workers[w].cancelled) ~>
              (w <= Len(workers) /\ workers[w].closed = 1)

\* A registration cancelled while a delivery attempt to it was in flight: the
\* worker has closed and the attempt was never handed off.
C7_Witness ==
    \E w \in 1..Len(workers), a \in 1..Len(attempts) :
        /\ workers[w].cancelled /\ workers[w].closed = 1
        /\ attempts[a].w = w /\ ~attempts[a].handed /\ attempts[a].timedOut

\* ---------------------------------------------------- claims on the kernel

\* The hook events of one kind in what the last kernel call did.
HookCalls(hook) == SelectSeq(klast.trace, LAMBDA e : e.ev = hook)
\* How many times the last kernel call called this hook of service i.
HookCount(hook, i) ==
    Cardinality({k \in 1..Len(HookCalls(hook)) : HookCalls(hook)[k].svc = i})

\* C8: in Stop, when a service's Stop hook returns an error, no later
\* service's Stop hook is called and Stop returns that error.
C8_StopAbortsOnError ==
    klast.op = "Stop" =>
        \A i \in 1..Len(services) :
            (HookCount("Stop", i) > 0 /\ HookErr("Stop", i) \in
                {HookCalls("Stop")[k].err : k \in 1..Len(HookCalls("Stop"))}) =>
               /\ \A j \in (i + 1)..Len(services) : HookCount("Stop", j) = 0
               /\ klast.ret = HookErr("Stop", i)

\* C9: in Run, if service k is the first whose Process hook fails, every
\* service before k had Process called exactly once, no service after k had
\* Process called, and Run returns service k's error.
C9_RunAbortsAtFirstFailure ==
    klast.op = "Run" =>
        \A k \in 1..Len(HookCalls("Process")) :
            HookCalls("Process")[k].err # Nil =>
               /\ HookCalls("Process")[k].svc = k
               /\ \A j \in 1..(k - 1) : HookCount("Process", j) = 1
               /\ HookCount("Process", k) = 1
               /\ \A j \in (k + 1)..Len(services) : HookCount("Process", j) = 0
               /\ klast.ret = HookErr("Process", k)
               /\ klast.ret = HookCalls("Process")[k].err

\* Run over three services of which the second fails.
C9_Witness ==
    /\ klast.op = "Run" /\ Len(services) = 3
    /\ Len(HookCalls("Process")) = 2
    /\ HookCalls("Process")[1].err = Nil
    /\ HookCalls("Process")[2].err # Nil
    /\ klast.ret = HookErr("Process", 2)

\* C10: when the routing of a drained notification fails to emit, the Run
\* call that drained it returns that failure as an error.
C10_RunReturnsEmitFailure ==
    klast.op = "Run" =>
        ((\E k \in 1..Len(klast.trace) :
             klast.trace[k].ev = "Route" /\ klast.trace[k].err = ErrFailedToEmit)
           => klast.ret = ErrFailedToEmit)

\* The last kernel call's publications and warnings, by position in its trace.
IsOutput(e) == e.ev \in {"Publish", "Warn"}

\* C11: routing one notification performs exactly one publish, on "Command",
\* "Data" or "Error" by content type, if and only if it comes from the module
\* or the core identity; otherwise it performs no publish, logs one warning
\* and returns no error.
C11_RoutingByContentAndOrigin ==
    klast.op = "Run" =>
        \A k \in 1..Len(klast.trace) :
            LET e == klast.trace[k]
                routed == /\ e.n.from \in {"module", "core"}
                          /\ e.n.content \in {"CommandObject", "DataObject", "ErrorObject"}
                channel == IF e.n.content = "CommandObject" THEN "Command"
                           ELSE IF e.n.content = "DataObject" THEN "Data" ELSE "Error"
            IN  /\ IsOutput(e) =>
                      (k < Len(klast.trace) /\ klast.trace[k + 1].ev = "Route")
                /\ e.ev = "Route" =>
                      /\ k > 1 /\ IsOutput(klast.trace[k - 1])
                      /\ klast.trace[k - 1].n = e.n
                      /\ k > 2 => ~IsOutput(klast.trace[k - 2])
                      /\ routed => /\ klast.trace[k - 1].ev = "Publish"
                                   /\ klast.trace[k - 1].ch = channel
                      /\ ~routed => /\ klast.trace[k - 1].ev = "Warn"
                                    /\ e.err = Nil

\* A DataObject notification from the kernel's own identity was routed by one
\* publish on "Data", whose delivery attempt was started.
C11_Witness ==
    /\ klast.op = "Run"
    /\ \E k \in 2..Len(klast.trace) :
          /\ klast.trace[k].ev = "Route"
          /\ klast.trace[k].n = Notif(EntityCore, EntityCore, "DataObject")
          /\ klast.trace[k - 1] = PublishEv("Data", klast.trace[k].n)
    /\ attempts # <<>>

\* C12: Configure with a configuration that is not loaded returns an error,
\* calls no Start or Configure hook, and leaves the service list, the
\* notification queue and the kernel state unchanged.
C12_ConfigureUnloaded ==
    [][\A n \in 0..MaxServices :
          (Returned /\ Configure(n, FALSE, FailsAt(n, 0), FailsAt(n, 0))) =>
             /\ klast'.op = "Configure" /\ klast'.ret # Nil
             /\ \A k \in 1..Len(klast'.trace) :
                   klast'.trace[k].ev \notin {"Start", "Configure"}
             /\ services' = services
             /\ queue' = queue
             /\ kstate' = kstate]_vars

\* An unloaded Configure returned on a kernel that has services, a queued
\* notification and a state set by an aborted Run.
C12_Witness ==
    /\ klast.op = "Configure" /\ klast.ret = ErrNotLoaded
    /\ services # <<>>
    /\ queue # <<>>
    /\ kstate = StateWorking

\* ------------------------------------- further claims on the event bus

\* The ids of the registrations stored in the channels' lists.
ListedIds ==
    UNION {{subscribers[c][k].id : k \in 1..Len(subscribers[c])} :
             c \in DOMAIN subscribers}

\* C13: after any sequence of Subscribe and Unsubscribe calls, the ids in the
\* channels' registration lists are exactly the known ids, and no channel
\* maps to an empty list.
C13_IdsMatchLists ==
    /\ ListedIds = ids
    /\ \A c \in DOMAIN subscribers : subscribers[c] # <<>>

\* The delivery goroutine of attempt a has returned: its hand-off completed,
\* or its send of ErrPublishTimeout on the error conduit completed.
Terminated(a) == attempts[a].handed \/ attempts[a].errWritten

\* C14: every delivery attempt started by Publish eventually terminates, by
\* hand-off or at the latest when its timeout fires, also when Publish had no
\* handler, when nobody reads the Event's conduits and when the subscriber's
\* worker has been cancelled.
C14_AttemptTerminates ==
    \A a \in 1..MaxLiveAttempts :
        (a <= Len(attempts)) ~> (a <= Len(attempts) /\ Terminated(a))

\* ------------------------------------------- further claims on the kernel

\* C16: Configure with a loaded configuration calls Start then Configure on
\* each service in list order; at the first failing hook it calls no further
\* hook, returns that error and does not set the state to Idle; the state
\* becomes Idle only when every Start and Configure succeeded.
C16_ConfigureInOrderUntilFailure ==
    [][(klast.op = "none" /\ klast'.op = "Configure" /\ klast'.ret # ErrNotLoaded) =>
          LET tr == klast'.trace
              failed == {k \in 1..Len(tr) : tr[k].err # Nil}
          IN  /\ \A k \in 1..Len(tr) :
                    /\ tr[k].ev = (IF k % 2 = 1 THEN "Start" ELSE "Configure")
                    /\ tr[k].svc = (k + 1) \div 2
                    /\ tr[k].svc \in 1..Len(services')
              /\ \A k \in failed :
                    /\ k = Len(tr)
                    /\ klast'.ret = tr[k].err
                    /\ kstate' = kstate
              /\ failed = {} =>
                    /\ Len(tr) = 2 * Len(services')
                    /\ klast'.ret = Nil
                    /\ kstate' = StateIdle
              /\ (kstate # StateIdle /\ kstate' = StateIdle) => failed = {}]_vars

\* Configure over three services aborted by the second service's Configure
\* hook, on a kernel whose state was not Idle.
C16_Witness ==
    /\ klast.op = "Configure" /\ Len(services) = 3
    /\ Len(klast.trace) = 4
    /\ klast.trace[4] = HookEv("Configure", 2, HookErr("Configure", 2))
    /\ klast.ret = HookErr("Configure", 2)
    /\ kstate = StateWorking

\* The notifications of the events of one kind that a kernel call recorded
\* after the Process hook of service i and before the next Process hook.
After(tr, i, kind) ==
    LET from == CHOOSE k \in 1..Len(tr) : tr[k].ev = "Process" /\ tr[k].svc = i
        later == {k \in (from + 1)..Len(tr) : tr[k].ev = "Process"}
        to == IF later = {} THEN Len(tr)
              ELSE (CHOOSE k \in later : \A j \in later : k <= j) - 1
        evs == SelectSeq(SubSeq(tr, from + 1, to), LAMBDA e : e.ev = kind)
    IN  [k \in 1..Len(evs) |-> evs[k].n]

\* C17: in Run, the notifications queued for the kernel's own identity when
\* service i's Process returns successfully are each routed exactly once
\* before service i+1's Process is called; notifications addressed to other
\* destinations are neither removed nor routed.
C17_DrainAfterEachProcess ==
    [][(klast.op = "none" /\ klast'.op = "Run") =>
          LET tr == klast'.trace
              forCore(q) == SelectSeq(q, LAMBDA n : n.to = "core")
              forOthers(q) == SelectSeq(q, LAMBDA n : n.to # "core")
              queued == SelectSeq(tr, LAMBDA e : e.ev = "Queue")
          IN  /\ \A k \in 1..Len(tr) :
                    tr[k].ev = "Process" =>
                       After(tr, tr[k].svc, "Route") =
                          IF tr[k].err # Nil THEN <<>>
                          ELSE IF k = 1
                            THEN forCore(queue \o After(tr, tr[k].svc, "Queue"))
                            ELSE forCore(After(tr, tr[k].svc, "Queue"))
              /\ \A k \in 1..Len(tr) :
                    tr[k].ev = "Route" => (k > 1 /\ tr[k].n.to = "core")
              /\ forOthers(queue') =
                    forOthers(queue \o [k \in 1..Len(queued) |-> queued[k].n])]_vars

\* A Run routed a notification for the kernel after the first service's
\* Process and before the second's, and left one for another destination queued.
C17_Witness ==
    /\ klast.op = "Run"
    /\ \A i \in 1..2 : \E k \in 1..Len(klast.trace) :
          klast.trace[k].ev = "Process" /\ klast.trace[k].svc = i
    /\ Len(After(klast.trace, 1, "Route")) >= 1
    /\ \E k \in 1..Len(queue) : queue[k].to # EntityCore

\* C18: Run sets the state to Working before any Process hook; when Run
\* returns an error the state is still Working, when it returns success the
\* state is Idle; over any sequence of Configure, Run and Stop calls the state
\* is only the initial value, Idle, Working or Stopped, never Started or Panic.
C18_RunStates ==
    /\ kstate \in {StateZero, StateIdle, StateWorking, StateStopped}
    /\ kstate \notin {StateStarted, StatePanic}
    /\ klast.op = "Run" =>
          /\ klast.ret # Nil => kstate = StateWorking
          /\ klast.ret = Nil => kstate = StateIdle

\* A Run aborted by the first service's Process: the state is already Working.
C18_Witness ==
    /\ klast.op = "Run" /\ klast.ret # Nil
    /\ Len(klast.trace) = 1 /\ klast.trace[1].ev = "Process"
    /\ kstate = StateWorking

\* The delivery attempts started by the last Publish.
NewAttempts == (Len(attempts) - last.newAttempts + 1)..Len(attempts)

\* C20: after a successful Unsubscribe on a channel, a later Publish on it
\* starts no delivery attempt towards the unsubscribed registration's queue,
\* and the consumers still registered each get exactly one attempt, in
\* registration order.
C20_UnsubscribeFrame ==
    (last.op = "Publish" /\ HadSubscribers(last.channel)) =>
        /\ \A a \in NewAttempts : ~workers[attempts[a].w].cancelled
        /\ \A p \in registered :
              p[1] = last.channel =>
                 Cardinality({a \in NewAttempts :
                                 workers[attempts[a].w].handler = p[2]}) = 1
        /\ \A a, b \in NewAttempts : a < b => attempts[a].w < attempts[b].w

\* ------------------------------- claims on the bus called concurrently

\* C15: every read and write of the subscriber tables by Publish, Subscribe
\* and Unsubscribe happens while the calling task holds the lock, and no two
\* tasks access the tables at the same time with one of them writing.
C15_TablesUnderLock ==
    /\ \A t \in 1..Len(tasks) :
          tasks[t].pc \in TableAccessPcs => lock = t
    /\ \A t, u \in 1..Len(tasks) :
          (t # u /\ tasks[t].pc \in {"store", "remove"}) =>
              tasks[u].pc \notin TableAccessPcs

\* C19: a Publish call given a handler never returns having invoked it zero
\* times, whatever Unsubscribe does concurrently: it invokes it once with
\* ChannelNotFound or once per subscriber.
C19_PublishInvokesHandler ==
    \A t \in 1..Len(tasks) :
        (tasks[t].op = "Publish" /\ tasks[t].hasHandler /\ tasks[t].pc = "done") =>
            tasks[t].invoked >= 1

====
